---- MODULE Spec2Model ----
(***************************************************************************)
(* Command handlers and delivery primitives of the Telegram bot            *)
(* (petircode/handlers/commands.py).  One handler invocation is a process  *)
(* p; every await (a transport call, a backoff sleep, an adapter call) is  *)
(* one step.  Texts are not stored character by character: a text coming   *)
(* from an adapter is described by how many whitespace characters it       *)
(* starts and ends with and how many characters lie between, and a piece   *)
(* of it is the half-open interval [lo, hi) of character positions it      *)
(* covers.  Slicing and stripping are computed on these intervals.         *)
(***************************************************************************)
EXTENDS Integers, Sequences, FiniteSets, TLC

\* ---------------------------------------------------------------- bounds
\* transport failures injected in one behaviour
MaxFaults == 3
\* status/progress events one stream emits before its result event
MaxEvents == 2
\* adapter texts are up to MaxChunks full thresholds long (plus one)
MaxChunks == 2
\* leading / trailing whitespace characters of stdout and stderr
MaxPad == 1
\* facade calls in one behaviour
MaxCalls == 3
\* updates the transport returns to one get_updates call
MaxUpdates == 2
\* largest limit argument passed to get_telegram_updates
MaxLimit == 2

\* ------------------------------------------------------ program constants
max_retries == 3
FETCH_LIMIT == 4000
DEEPSEEK_LIMIT == 4000
CLAUDE_LIMIT == 3800
\* arguments.get("limit", 10)
DEFAULT_LIMIT == 10

Procs == {1, 2}
Commands == {"fetch", "deepseek", "claude"}

\* Outcomes of a transport call.  "NetworkError" stands for the errors the
\* clause except (NetworkError, TimedOut) catches (TimedOut is a subclass of
\* NetworkError); "Forbidden" for a TelegramError that clause does not catch.
Transient == {"NetworkError"}
TransportErrors == Transient \cup {"Forbidden"}

Min(a, b) == IF a < b THEN a ELSE b

\* ------------------------------------------------------------------ texts
\* An adapter text: lead whitespace characters, then core characters of
\* which the first and the last are not whitespace, then trail whitespace
\* characters.  A text of whitespace only has core = 0 and trail = 0.
Text(lead, core, trail) == [lead |-> lead, core |-> core, trail |-> trail]
TextLen(t) == t.lead + t.core + t.trail

\* lengths around the multiples of limit: at the limit, a whole number of
\* chunks, and one character more
Lens(limit) == {0, 1} \cup {c * limit : c \in 1..MaxChunks}
                       \cup {limit + 1, MaxChunks * limit + 1}
PlainTexts(limit) == {Text(0, n, 0) : n \in Lens(limit)}
PaddedTexts(limit) ==
    {Text(l, n, IF n = 0 THEN 0 ELSE r) :
        l \in {0, MaxPad}, r \in {0, MaxPad}, n \in Lens(limit)}

\* A string value held by a handler: the characters [lo, hi) of the text
\* src, followed by the truncation marker when mark is set.
Str(src, lo, hi) == [src |-> src, lo |-> lo, hi |-> hi, mark |-> FALSE]
NoStr == Str("none", 0, 0)
StrLen(s) == s.hi - s.lo
\* s[i:j]
Slice(s, i, j) == [s EXCEPT !.lo = Min(s.lo + i, s.hi), !.hi = Min(s.lo + j, s.hi)]
\* the whole text t
Whole(src, t) == Str(src, 0, TextLen(t))
\* t.strip()
strip(src, t) == IF t.core = 0 THEN Str(src, 0, 0) ELSE Str(src, t.lead, t.lead + t.core)

\* range(0, n, step) cut short: the last, partial step is dropped
RangeCount_floor(n, step) == n \div step

\* number of elements of range(0, n, step)
RangeCount(n, step) == (n + step - 1) \div step

\* [output[i:i+size] for i in range(0, len(output), size)]
chunks(output, size) ==
    [c \in 1..RangeCount(StrLen(output), size) |->
        Slice(output, (c - 1) * size, (c - 1) * size + size)]

\* the cut without the truncation marker
truncate_unmarked(s, limit) == IF StrLen(s) > limit THEN Slice(s, 0, limit) ELSE s

\* content[:limit] + marker when len(content) > limit
truncate(s, limit) ==
    IF StrLen(s) > limit THEN [Slice(s, 0, limit) EXCEPT !.mark = TRUE] ELSE s

\* A message text: tag names the fixed wording, arg an embedded short value
\* (event payload, error message, return code), i/n the part label, body the
\* embedded long string.
Msg(tag, arg, i, n, body) == [tag |-> tag, arg |-> arg, i |-> i, n |-> n, body |-> body]
Fixed(tag) == Msg(tag, "", 0, 0, NoStr)

\* ---------------------------------------------------- delivery primitives
\* What a primitive does with the outcome o of its transport call number
\* attempt (0-based): "return" the transport's message, "sleep" and retry,
\* return "none", or "raise" the error to its caller.

\* update.message.reply_text awaited directly: no retry
reply_text_direct(attempt, o) == IF o = "ok" THEN "return" ELSE "raise"

\* safe_reply with the loop bound used for the retry test: it sleeps after the
\* last failure too and the loop ends without raising
safe_reply_no_raise(attempt, o) ==
    IF o = "ok" THEN "return"
    ELSE IF o \in Transient
         THEN IF attempt < max_retries THEN "sleep" ELSE "raise"
         ELSE "raise"

safe_reply(attempt, o) ==
    IF o = "ok" THEN "return"
    ELSE IF o \in Transient
         THEN IF attempt < max_retries - 1 THEN "sleep" ELSE "raise"
         ELSE "raise"

\* safe_edit re-raising after the last attempt, as safe_reply does
safe_edit_reraise(attempt, o) ==
    IF o = "ok" THEN "return"
    ELSE IF o \in Transient
         THEN IF attempt < max_retries - 1 THEN "sleep" ELSE "raise"
         ELSE "raise"

safe_edit(attempt, o) ==
    IF o = "ok" THEN "return"
    ELSE IF o \in Transient
         THEN IF attempt < max_retries - 1 THEN "sleep" ELSE "none"
         ELSE "raise"

\* 2 * attempt written for 2 ** attempt
backoff_product(attempt) == 2 * attempt

\* asyncio.sleep(2 ** attempt)
backoff(attempt) == 2 ^ attempt

\* ---------------------------------------------------------------- handlers
\* Call sites of the handlers: the handler is inside the primitive named by
\* Primitive, sending the text SiteText.
EditSites == {"edit_processing", "edit_done", "edit_config", "edit_error",
              "edit_status", "edit_progress", "edit_failed"}
ReplySites == {"usage", "placeholder", "final", "reply_config", "reply_error",
               "reply_failed"}
Sites == EditSites \cup ReplySites

Primitive(c, site) ==
    IF c = "fetch" THEN "reply_text"
    ELSE IF site \in EditSites THEN "safe_edit" ELSE "safe_reply"

Verdict(prim, attempt, o) ==
    CASE prim = "reply_text" -> reply_text_direct(attempt, o)
      [] prim = "safe_reply" -> safe_reply(attempt, o)
      [] prim = "safe_edit" -> safe_edit(attempt, o)

\* Where a handler goes next: pc is a call site, "invoke" (awaiting the
\* adapter), "returned" or "raised"; k the index of the final reply being
\* sent; err the str(e) of the exception being handled or escaping.
Go(site, kk, er) == [pc |-> site, k |-> kk, err |-> er]
Returned == Go("returned", 0, "")
Raised(e) == Go("raised", 0, e)

\* the except clause without its status edit
Catch_no_edit(bound, e) ==
    IF bound THEN Go("reply_error", 0, e) ELSE Raised("UnboundLocalError")

\* the except clause of a handler that sets status_msg = None before try
Catch_initialised(bound, e) ==
    IF bound THEN Go("edit_error", 0, e) ELSE Go("reply_error", 0, e)

\* except Exception as e: if status_msg: safe_edit(...)   (deepseek, claude)
\* status_msg is a local of the handler assigned inside the try block.
Catch(bound, e) == IF bound THEN Go("edit_error", 0, e) ELSE Raised("UnboundLocalError")

\* the check of context.args left out
validate_unchecked(a) == "placeholder"

\* if not context.args: send the usage reply and return; else go on to the
\* status placeholder
validate(a) == IF a THEN "placeholder" ELSE "usage"

\* both kinds of event given the status marker
on_event_one_marker(type) == "edit_status"

\* the edit a status/progress event leads to: 💻 for status, ⚙️ for progress
on_event(type) == IF type = "status" THEN "edit_status" ELSE "edit_progress"

\* fetch_command after the call at site ended with verdict r (error e)
fetch_command(site, r, e) ==
    CASE site = "usage" -> IF r = "raise" THEN Raised(e) ELSE Returned
      [] site = "placeholder" -> IF r = "raise" THEN Raised(e) ELSE Go("invoke", 0, "")
      [] site = "final" -> IF r = "raise" THEN Go("reply_error", 0, e) ELSE Returned
      [] site = "reply_error" -> IF r = "raise" THEN Raised(e) ELSE Returned

\* deepseek_command after the call at site ended; bound: status_msg is
\* assigned; kk of n final replies have been started; er is the str(e) of
\* the exception the handler is in the except clause of.
\* safe_reply returns only the Message of reply_text, so the test
\* `if not status_msg: return` after the placeholder never returns.
deepseek_command(site, r, e, bound, kk, n, er) ==
    CASE site = "usage" -> IF r = "raise" THEN Raised(e) ELSE Returned
      [] site = "placeholder" ->
            IF r = "raise" THEN Catch(bound, e) ELSE Go("edit_processing", 0, "")
      [] site = "edit_processing" ->
            IF r = "raise" THEN Catch(bound, e) ELSE Go("invoke", 0, "")
      [] site = "edit_done" ->
            IF r = "raise" THEN Catch(bound, e) ELSE Go("final", 1, "")
      [] site = "final" ->
            IF r = "raise" THEN Catch(bound, e)
            ELSE IF kk < n THEN Go("final", kk + 1, "") ELSE Returned
      [] site = "edit_config" ->
            IF r = "raise" THEN Raised(e) ELSE Go("reply_config", 0, "")
      [] site = "reply_config" -> IF r = "raise" THEN Raised(e) ELSE Returned
      [] site = "edit_error" ->
            IF r = "raise" THEN Raised(e) ELSE Go("reply_error", 0, er)
      [] site = "reply_error" -> IF r = "raise" THEN Raised(e) ELSE Returned

\* claude_command after the call at site ended.  After the reply that ends
\* the handling of the result event the async for asks for the next event.
claude_command(site, r, e, bound, kk, n, er) ==
    CASE site = "usage" -> IF r = "raise" THEN Raised(e) ELSE Returned
      [] site = "placeholder" ->
            IF r = "raise" THEN Catch(bound, e) ELSE Go("invoke", 0, "")
      [] site \in {"edit_status", "edit_progress"} ->
            IF r = "raise" THEN Catch(bound, e) ELSE Go("invoke", 0, "")
      [] site = "edit_done" ->
            IF r = "raise" THEN Catch(bound, e) ELSE Go("final", 1, "")
      [] site = "final" ->
            IF r = "raise" THEN Catch(bound, e)
            ELSE IF kk < n THEN Go("final", kk + 1, "") ELSE Go("invoke", 0, "")
      [] site = "edit_failed" ->
            IF r = "raise" THEN Catch(bound, e) ELSE Go("reply_failed", 0, "")
      [] site = "reply_failed" ->
            IF r = "raise" THEN Catch(bound, e) ELSE Go("invoke", 0, "")
      [] site = "edit_error" ->
            IF r = "raise" THEN Raised(e) ELSE Go("reply_error", 0, er)
      [] site = "reply_error" -> IF r = "raise" THEN Raised(e) ELSE Returned

Handler(c, site, r, e, bound, kk, n, er) ==
    CASE c = "fetch" -> fetch_command(site, r, e)
      [] c = "deepseek" -> deepseek_command(site, r, e, bound, kk, n, er)
      [] c = "claude" -> claude_command(site, r, e, bound, kk, n, er)

\* ------------------------------------------------------------ reply texts
\* output = result['stdout'].strip()
Output(res) == strip("stdout", res.stdout)

\* the final replies of deepseek_command for response rsp: their text bodies
deepseek_replies(rsp) ==
    LET response == Whole("response", rsp) IN
    IF StrLen(response) > DEEPSEEK_LIMIT
    THEN LET cs == chunks(response, DEEPSEEK_LIMIT) IN
         [c \in DOMAIN cs |-> Msg("answer_part", "", c, 0, cs[c])]
    ELSE << Msg("answer", "", 0, 0, response) >>

\* the final replies of claude_command on a successful result
claude_replies(res) ==
    LET output == Output(res) IN
    IF StrLen(output) = 0 THEN << Msg("output", "no_output", 0, 0, NoStr) >>
    ELSE IF StrLen(output) > CLAUDE_LIMIT
    THEN LET cs == chunks(output, CLAUDE_LIMIT) IN
         [c \in DOMAIN cs |-> Msg("output_part", "", c, Len(cs), cs[c])]
    ELSE << Msg("output", "", 0, 0, output) >>

\* the content reply of fetch_command
fetch_reply(rsp) == Msg("content", "", 0, 0, truncate(Whole("content", rsp), FETCH_LIMIT))

\* error_msg = result['stderr'].strip() or result['stdout'].strip(), cut
claude_failure(res) ==
    LET e1 == strip("stderr", res.stderr)
        error_msg == IF StrLen(e1) > 0 THEN e1 ELSE strip("stdout", res.stdout)
    IN Msg("failed_reply", ToString(res.return_code), 0, 0, truncate(error_msg, CLAUDE_LIMIT))

FinalReplies(c, rsp, res) ==
    CASE c = "fetch" -> << fetch_reply(rsp) >>
      [] c = "deepseek" -> deepseek_replies(rsp)
      [] c = "claude" -> claude_replies(res)

\* The text the handler of command c passes to the primitive at site.
SiteText(c, site, rsp, res, kk, er, payload) ==
    CASE site = "final" -> FinalReplies(c, rsp, res)[kk]
      [] site = "reply_failed" -> claude_failure(res)
      [] site \in {"reply_error"} -> Msg(site, er, 0, 0, NoStr)
      [] site \in {"edit_status", "edit_progress"} -> Msg(site, payload, 0, 0, NoStr)
      [] OTHER -> Msg(site, c, 0, 0, NoStr)

\* ---------------------------------------------------------- adapter results
NoText == Text(0, 0, 0)
Result(success, rc, out, errt) ==
    [success |-> success, return_code |-> rc, stdout |-> out, stderr |-> errt]
NoResult == Result(TRUE, 0, NoText, NoText)

Event(type, message) == [type |-> type, message |-> message]

ErrTexts == {NoText, Text(0, 1, 0), Text(MaxPad, CLAUDE_LIMIT + 1, MaxPad)}
\* The result events a stream may end with.  success and return_code are
\* independent fields.
ExecResults ==
    {Result(TRUE, 0, out, NoText) : out \in PaddedTexts(CLAUDE_LIMIT)}
    \cup {Result(TRUE, 1, Text(0, 1, 0), errt) : errt \in ErrTexts}
    \cup {Result(FALSE, rc, out, errt) : rc \in {0, 1}, out \in ErrTexts, errt \in ErrTexts}

\* The status/progress events a stream may yield.
StreamEvents == {Event("status", "starting"), Event("progress", "50%"),
                 Event("progress", "starting")}

\* ------------------------------------------------------------------- state
VARIABLES
    cmd,          \* cmd[p]: the command of invocation p ("none" before it arrives)
    args,         \* args[p]: context.args is not empty
    pc,           \* pc[p]: "idle", a call site, "invoke", "returned", "raised"
    call,         \* call[p]: attempt and phase of the primitive in progress
    hist,         \* hist[p]: the primitive call in progress or just ended
    ops,          \* ops[p]: the primitive calls the handler made, in order
    status_msg,   \* status_msg[p]: << >> while unassigned, else << message id >>
    response,     \* response[p]: text returned by fetch_url_content / query_deepseek
    result,       \* result[p]: data of the result event
    events,       \* events[p]: events the stream has yielded so far
    k,            \* k[p]: index of the final reply being sent
    err,          \* err[p]: str(e) of the exception caught or escaping
    failed,       \* failed[p]: the transport calls (reply_text, edit_text) that failed for p
    chat,         \* messages delivered to the chat; the id is the position
    faults,       \* transport failures so far
    adapter       \* adapter[p]: how the last call of the adapter ended ("none"
                  \* before the first call, "returned", or the class of its error)

\* The tool facade (mcp_server.py).
VARIABLES
    bot,          \* the module global bot: 0 for None, else the number of the Bot instance
    token,        \* TELEGRAM_BOT_TOKEN is set in the environment
    created,      \* Bot instances constructed so far
    ncalls,       \* facade calls started so far
    server,       \* "down", or how the serving module was started: "script"
                  \* (python mcp_server.py) or "module" (imported, main() called)
    tool_call     \* tool_call[q]: the call_tool invocation in slot q

hvars == << cmd, args, pc, call, hist, ops, status_msg, response, result, events,
            k, err, failed, chat, faults, adapter >>
fvars == << bot, token, created, ncalls, server, tool_call >>
vars == << hvars, fvars >>

NoCall == [attempt |-> 0, phase |-> "idle"]
NewCall == [attempt |-> 0, phase |-> "try"]
\* hist: the primitive call in progress or just ended (forgotten at the
\* next adapter step): primitive fn called at site with text; tries: the outcomes of its
\* transport calls; waits: its sleeps; res: "pending", "return", "none" or
\* "raise"; value: id of the message returned; exc: the error raised.
NoHist == [fn |-> "none", site |-> "none", text |-> Fixed("none"), tries |-> << >>,
           waits |-> << >>, res |-> "none", value |-> 0, exc |-> ""]

\* slots in which facade calls run, interleaved at their awaits
Calls == {1, 2}

\* The arguments of a tool call: dict is false for a value that is no dict;
\* chat_id and text are "absent" (no such key), "" or a value; limit is
\* present when has_limit.
Arguments(d, chat_id, text, has_limit, limit) ==
    [dict |-> d, chat_id |-> chat_id, text |-> text, has_limit |-> has_limit,
     limit |-> limit]
NoArguments == Arguments(TRUE, "absent", "absent", FALSE, 0)

\* TextContent(type="text", text=prefix + body [+ one block per message])
TextContent(prefix, body, blocks) ==
    [type |-> "text", prefix |-> prefix, body |-> body, blocks |-> blocks]

\* A call_tool invocation: pc is "idle", "await" (inside the awaited
\* transport call), "done" (returned out) or "raised" (raised exc);
\* get_bot: what get_bot did for it ("none": not called, "reused",
\* "created", "failed"); used: the Bot instance it works with; sent: the
\* transport calls it made; cause: the kind of the error that occurred;
\* updates: what the transport returned to get_updates.
NoToolCall ==
    [pc |-> "idle", name |-> "", arguments |-> NoArguments, get_bot |-> "none",
     used |-> 0, sent |-> 0, out |-> << >>, exc |-> "", cause |-> "", updates |-> << >>]

FacadeInit ==
    /\ bot = 0
    /\ token = FALSE
    /\ created = 0
    /\ ncalls = 0
    /\ server = "down"
    /\ tool_call = [q \in Calls |-> NoToolCall]

Init ==
    /\ FacadeInit
    /\ cmd = [p \in Procs |-> "none"]
    /\ args = [p \in Procs |-> FALSE]
    /\ pc = [p \in Procs |-> "idle"]
    /\ call = [p \in Procs |-> NoCall]
    /\ hist = [p \in Procs |-> NoHist]
    /\ ops = [p \in Procs |-> << >>]
    /\ status_msg = [p \in Procs |-> << >>]
    /\ response = [p \in Procs |-> NoText]
    /\ result = [p \in Procs |-> NoResult]
    /\ events = [p \in Procs |-> << >>]
    /\ k = [p \in Procs |-> 0]
    /\ err = [p \in Procs |-> ""]
    /\ failed = [p \in Procs |-> {}]
    /\ chat = << >>
    /\ faults = 0
    /\ adapter = [p \in Procs |-> "none"]

\* The handler of p moves to nxt; when that is a call site the primitive call
\* starts there with the text the handler passes.
Resume(p, c, nxt, rsp, res, payload) ==
    /\ pc' = [pc EXCEPT ![p] = nxt.pc]
    /\ k' = [k EXCEPT ![p] = nxt.k]
    /\ err' = [err EXCEPT ![p] = nxt.err]
    /\ IF nxt.pc \in Sites
       THEN /\ call' = [call EXCEPT ![p] = NewCall]
            /\ ops' = [ops EXCEPT ![p] = Append(@,
                         [fn |-> Primitive(c, nxt.pc), site |-> nxt.pc,
                          text |-> SiteText(c, nxt.pc, rsp, res, nxt.k, nxt.err, payload)])]
       ELSE /\ call' = [call EXCEPT ![p] = NoCall]
            /\ ops' = ops

\* A command arrives: the handler runs up to its first await.
\* if not context.args: usage reply; else the status placeholder.
Receive(p) ==
    /\ pc[p] = "idle"
    /\ \E c \in Commands, a \in BOOLEAN :
         /\ cmd' = [cmd EXCEPT ![p] = c]
         /\ args' = [args EXCEPT ![p] = a]
         /\ Resume(p, c, Go(validate(a), 0, ""),
                   NoText, NoResult, "")
    /\ UNCHANGED << fvars, hist, status_msg, response, result, events, failed, chat, faults,
                    adapter >>

\* an edit aimed at the newest message of the chat
edit_target_latest(st, ch) == Len(ch)

\* message.edit_text(...) in safe_edit(status_msg, ...): the message edited
\* is the one the handler's own local status_msg refers to
edit_target(st, ch) == st[1]

\* One transport call (message.reply_text / message.edit_text) of the
\* primitive in progress, with outcome o, and what the primitive and then the
\* handler do with it up to the next await.
Transport(p, o) ==
    LET c == cmd[p]
        site == pc[p]
        prim == Primitive(c, site)
        a == call[p].attempt
        v == Verdict(prim, a, o)
        op == ops[p][Len(ops[p])]
        id == IF site \in EditSites THEN edit_target(status_msg[p], chat)
              ELSE Len(chat) + 1
        assigns == site = "placeholder" /\ v = "return" /\ c # "fetch"
        bound == assigns \/ status_msg[p] # << >>
        n == Len(FinalReplies(c, response[p], result[p]))
        tries == IF a = 0 THEN << o >> ELSE Append(hist[p].tries, o)
        waits == IF a = 0 THEN << >> ELSE hist[p].waits
    IN
    /\ pc[p] \in Sites
    /\ call[p].phase = "try"
    /\ o # "ok" => faults < MaxFaults
    /\ faults' = IF o = "ok" THEN faults ELSE faults + 1
    /\ failed' = IF o = "ok" THEN failed
                 ELSE [failed EXCEPT ![p] = @ \cup
                         {IF site \in EditSites THEN "edit_text" ELSE "reply_text"}]
    /\ chat' = IF o # "ok" THEN chat
               ELSE IF site \in EditSites THEN [chat EXCEPT ![id].text = op.text]
               ELSE Append(chat, [owner |-> p, text |-> op.text])
    /\ status_msg' = IF assigns THEN [status_msg EXCEPT ![p] = << id >>] ELSE status_msg
    /\ IF v = "sleep"
       THEN /\ call' = [call EXCEPT ![p].phase = "sleep"]
            /\ hist' = [hist EXCEPT ![p] =
                          [fn |-> prim, site |-> site, text |-> op.text, tries |-> tries,
                           waits |-> waits, res |-> "pending", value |-> 0, exc |-> ""]]
            /\ UNCHANGED << pc, k, err, ops >>
       ELSE /\ hist' = [hist EXCEPT ![p] =
                          [fn |-> prim, site |-> site, text |-> op.text, tries |-> tries,
                           waits |-> waits, res |-> v,
                           value |-> IF v = "return" THEN id ELSE 0,
                           exc |-> IF v = "raise" THEN o ELSE ""]]
            /\ Resume(p, c, Handler(c, site, v, o, bound, k[p], n, err[p]),
                      response[p], result[p], "")
    /\ UNCHANGED << fvars, cmd, args, response, result, events, adapter >>

Outcomes == {"ok"} \cup TransportErrors

\* await message.reply_text(text)
reply_text(p) == /\ pc[p] \in ReplySites
                 /\ \E o \in Outcomes : Transport(p, o)

\* await message.edit_text(text)
edit_text(p) == /\ pc[p] \in EditSites
                /\ \E o \in Outcomes : Transport(p, o)

\* await asyncio.sleep(2 ** attempt), then the next iteration of the loop
sleep(p) ==
    /\ pc[p] \in Sites
    /\ call[p].phase = "sleep"
    /\ hist' = [hist EXCEPT ![p].waits = Append(@, backoff(call[p].attempt))]
    /\ call' = [call EXCEPT ![p] = [attempt |-> call[p].attempt + 1, phase |-> "try"]]
    /\ UNCHANGED << fvars, cmd, args, pc, ops, status_msg, response, result, events, k, err,
                    failed, chat, faults, adapter >>

\* ---------------------------------------------------------------- adapters
\* content = await fetch_url_content(url): a text, or any error
fetch_url_content(p) ==
    /\ pc[p] = "invoke" /\ cmd[p] = "fetch"
    /\ \/ \E content \in PlainTexts(FETCH_LIMIT) \cup {Text(0, 5000, 0)} :
            /\ response' = [response EXCEPT ![p] = content]
            /\ adapter' = [adapter EXCEPT ![p] = "returned"]
            /\ Resume(p, "fetch", Go("final", 1, ""), content, result[p], "")
       \/ /\ response' = response
          /\ adapter' = [adapter EXCEPT ![p] = "Exception"]
          /\ Resume(p, "fetch", Go("reply_error", 0, "Exception"), response[p], result[p], "")
    /\ hist' = [hist EXCEPT ![p] = NoHist]
    /\ UNCHANGED << fvars, cmd, args, status_msg, result, events, failed, chat, faults >>

\* response = await query_deepseek(question): a text, ValueError when the API
\* key is not configured, or any other error
query_deepseek(p) ==
    /\ pc[p] = "invoke" /\ cmd[p] = "deepseek"
    /\ \/ \E rsp \in PlainTexts(DEEPSEEK_LIMIT) :
            /\ response' = [response EXCEPT ![p] = rsp]
            /\ adapter' = [adapter EXCEPT ![p] = "returned"]
            /\ Resume(p, "deepseek", Go("edit_done", 0, ""), rsp, result[p], "")
       \/ /\ response' = response
          /\ adapter' = [adapter EXCEPT ![p] = "ValueError"]
          /\ Resume(p, "deepseek",
                    IF status_msg[p] # << >> THEN Go("edit_config", 0, "ValueError")
                    ELSE Raised("UnboundLocalError"),
                    response[p], result[p], "")
       \/ /\ response' = response
          /\ adapter' = [adapter EXCEPT ![p] = "Exception"]
          /\ Resume(p, "deepseek", Catch(status_msg[p] # << >>, "Exception"),
                    response[p], result[p], "")
    /\ hist' = [hist EXCEPT ![p] = NoHist]
    /\ UNCHANGED << fvars, cmd, args, status_msg, result, events, failed, chat, faults >>

HasResult(evs) == \E j \in DOMAIN evs : evs[j].type = "result"

\* async for status_update in execute_claude_code_with_status(operation):
\* the next event of the stream (status/progress events, then one result
\* event, then the end), or an error raised by the adapter
execute_claude_code_with_status(p) ==
    /\ pc[p] = "invoke" /\ cmd[p] = "claude"
    /\ IF HasResult(events[p])
       THEN /\ Resume(p, "claude", Returned, response[p], result[p], "")
            /\ UNCHANGED << events, result, adapter >>
       ELSE \/ \E ev \in StreamEvents :
                 /\ Len(events[p]) < MaxEvents
                 /\ events' = [events EXCEPT ![p] = Append(@, ev)]
                 /\ result' = result
                 /\ adapter' = [adapter EXCEPT ![p] = "returned"]
                 /\ Resume(p, "claude",
                           Go(on_event(ev.type), 0, ""),
                           response[p], result[p], ev.message)
            \/ \E res \in ExecResults :
                 /\ events' = [events EXCEPT ![p] = Append(@, Event("result", ""))]
                 /\ result' = [result EXCEPT ![p] = res]
                 /\ adapter' = [adapter EXCEPT ![p] = "returned"]
                 /\ Resume(p, "claude",
                           Go(IF res.success THEN "edit_done" ELSE "edit_failed", 0, ""),
                           response[p], res, "")
            \/ \E e \in {"ValueError", "Exception"} :
                 /\ UNCHANGED << events, result >>
                 /\ adapter' = [adapter EXCEPT ![p] = e]
                 /\ Resume(p, "claude", Catch(status_msg[p] # << >>, e),
                           response[p], result[p], "")
    /\ hist' = [hist EXCEPT ![p] = NoHist]
    /\ UNCHANGED << fvars, cmd, args, status_msg, response, failed, chat, faults >>

\* ----------------------------------------------------------- specification
Step(p) ==
    \/ Receive(p)
    \/ reply_text(p)
    \/ edit_text(p)
    \/ sleep(p)
    \/ fetch_url_content(p)
    \/ query_deepseek(p)
    \/ execute_claude_code_with_status(p)

\* one invocation at a time
Next == Step(1)

Spec == Init /\ [][Next]_vars

\* ------------------------------------------------- concurrent invocations
\* transport failures in a run of concurrent invocations
MaxConcFaults == 1

\* The inputs of the concurrent runs: short texts, at most one status event
\* before the result, few transport failures.
ConcInputs ==
    /\ faults <= MaxConcFaults
    /\ \A p \in Procs :
         /\ response[p] \in {NoText, Text(0, 1, 0)}
         /\ result[p] \in {NoResult, Result(FALSE, 1, NoText, Text(0, 1, 0))}
         /\ \A j \in DOMAIN events[p] :
              events[p][j] \in {Event("status", "starting"), Event("result", "")}
         /\ Len(events[p]) <= 2

\* the handlers of all invocations run on one event loop and interleave at
\* their awaits
NextConc ==
    \E p \in Procs :
        \/ Receive(p) /\ ConcInputs'
        \/ reply_text(p) /\ ConcInputs'
        \/ edit_text(p) /\ ConcInputs'
        \/ sleep(p) /\ ConcInputs'
        \/ fetch_url_content(p) /\ ConcInputs'
        \/ query_deepseek(p) /\ ConcInputs'
        \/ execute_claude_code_with_status(p) /\ ConcInputs'

SpecConc == Init /\ [][NextConc]_vars

\* ---------------------------------------------------------------------
\* The tool facade (mcp_server.py)
\* ---------------------------------------------------------------------

Max(a, b) == IF a > b THEN a ELSE b

ToolNames == {"send_telegram_message", "get_telegram_updates", "other_tool"}

\* An update of the transport: one that carries a message, or one whose
\* message is None (an edited message, a callback query, ...).
UpdateKinds == {"message", "other"}

RECURSIVE SeqsUpTo(_, _)
SeqsUpTo(S, n) ==
    IF n = 0 THEN {<< >>}
    ELSE LET R == SeqsUpTo(S, n - 1)
         IN  R \cup {Append(r, x) : r \in {r \in R : Len(r) = n - 1}, x \in S}

UpdateLists == SeqsUpTo(UpdateKinds, MaxUpdates)

SendArguments ==
    {Arguments(TRUE, c, t, FALSE, 0) : c \in {"absent", "", "42"}, t \in {"absent", "", "hi"}}
UpdatesArguments ==
    {Arguments(TRUE, "absent", "absent", FALSE, 0)}
        \cup {Arguments(TRUE, "absent", "absent", TRUE, l) : l \in 0 .. MaxLimit}
NotADict == Arguments(FALSE, "absent", "absent", FALSE, 0)

ArgumentsOf(name) ==
    {NotADict} \cup (CASE name = "send_telegram_message" -> SendArguments
                       [] name = "get_telegram_updates" -> UpdatesArguments
                       [] OTHER -> {NoArguments})

\* what the awaited transport call can do: return, raise a TelegramError,
\* raise an error of another class
FacadeOutcomes == {"ok", "TelegramError", "RuntimeError"}

\* Python truthiness of arguments.get(key): None and "" are false.
Truthy(v) == v \notin {"absent", ""}

\* get_bot that constructs a Bot at every call
get_bot_uncached(b, tok, n) ==
    IF ~tok THEN [bot |-> 0, created |-> n, did |-> "failed"]
    ELSE [bot |-> n + 1, created |-> n + 1, did |-> "created"]

\* get_bot(): the global, the number of instances constructed and what the
\* call did, from the global b, the token tok and the instances n so far.
get_bot(b, tok, n) ==
    IF b # 0 THEN [bot |-> b, created |-> n, did |-> "reused"]
    ELSE IF ~tok THEN [bot |-> 0, created |-> n, did |-> "failed"]
    ELSE [bot |-> n + 1, created |-> n + 1, did |-> "created"]

\* The ends of a tool function's step.
ToolReturn(c, content) == [c EXCEPT !.pc = "done", !.out = << content >>]
ToolRaise(c, e) == [c EXCEPT !.pc = "raised", !.exc = e, !.cause = e]
ToolAwait(c, g) ==
    [c EXCEPT !.pc = "await", !.get_bot = g.did, !.used = g.bot, !.sent = c.sent + 1]

\* send_message that asks for the client before it looks at its arguments
send_message_unvalidated(c, b, tok, n) ==
    IF ~c.arguments.dict THEN ToolRaise(c, "AttributeError")
    ELSE LET g == get_bot(b, tok, n)
         IN  IF g.did = "failed"
             THEN ToolRaise([c EXCEPT !.get_bot = "failed"], "ValueError")
             ELSE IF ~Truthy(c.arguments.chat_id) \/ ~Truthy(c.arguments.text)
             THEN ToolReturn([c EXCEPT !.get_bot = g.did],
                             TextContent("Error: ", "chat_id and text are required", << >>))
             ELSE ToolAwait(c, g)

\* send_message up to its await
send_message(c, b, tok, n) ==
    IF ~c.arguments.dict THEN ToolRaise(c, "AttributeError")
    ELSE IF ~Truthy(c.arguments.chat_id) \/ ~Truthy(c.arguments.text)
    THEN ToolReturn(c, TextContent("Error: ", "chat_id and text are required", << >>))
    ELSE LET g == get_bot(b, tok, n)
         IN  IF g.did = "failed"
             THEN ToolRaise([c EXCEPT !.get_bot = "failed"], "ValueError")
             ELSE ToolAwait(c, g)

\* send_message from the end of its await
send_message_sent(c, o) ==
    CASE o = "ok" -> ToolReturn(c, TextContent("", "Message sent successfully!", << >>))
      [] o = "TelegramError" ->
            ToolReturn([c EXCEPT !.cause = o], TextContent("Telegram error: ", o, << >>))
      [] OTHER -> ToolRaise(c, o)

\* arguments.get("limit", 10)
limit_of(a) == IF a.has_limit THEN a.limit ELSE DEFAULT_LIMIT

\* The index before the first element of updates[-limit:], as Python
\* resolves the slice start -limit: a negative start counts from the end,
\* and -0 is 0, the start of the list.
slice_start(len, limit) ==
    LET i == 0 - limit
    IN  IF i < 0 THEN Max(len + i, 0) ELSE Min(i, len)

\* the positions of updates[-limit:] in updates
last_updates(updates, limit) ==
    LET s == slice_start(Len(updates), limit)
    IN  [j \in 1 .. Len(updates) - s |-> s + j]

\* one block per selected update that has a message
blocks(updates, limit) ==
    SelectSeq(last_updates(updates, limit), LAMBDA j : updates[j] = "message")

\* get_updates up to its await; in a process started as a script the name
\* get_updates is bound only after asyncio.run(main()) has returned
get_updates(c, b, tok, n, srv) ==
    IF srv = "script" THEN ToolRaise(c, "NameError")
    ELSE IF ~c.arguments.dict THEN ToolRaise(c, "AttributeError")
    ELSE LET g == get_bot(b, tok, n)
         IN  IF g.did = "failed"
             THEN ToolRaise([c EXCEPT !.get_bot = "failed"], "ValueError")
             ELSE ToolAwait(c, g)

\* get_updates from the end of its await
get_updates_received(c, o, updates) ==
    CASE o = "ok" ->
            IF updates = << >>
            THEN ToolReturn(c, TextContent("", "No recent messages", << >>))
            ELSE ToolReturn([c EXCEPT !.updates = updates],
                            TextContent("", "Recent messages:",
                                        blocks(updates, limit_of(c.arguments))))
      [] o = "TelegramError" ->
            ToolReturn([c EXCEPT !.cause = o], TextContent("Telegram error: ", o, << >>))
      [] OTHER -> ToolRaise(c, o)

\* call_tool whose except clause lets the error through
call_tool_uncaught(c) == c

\* call_tool's except clause around a step of the tool function
call_tool(c) ==
    IF c.pc = "raised"
    THEN [c EXCEPT !.pc = "done", !.exc = "",
                   !.out = << TextContent("Error: ", c.exc, << >>) >>]
    ELSE c

\* asyncio.run(main()): the server starts serving
main ==
    /\ server = "down"
    /\ server' \in {"script", "module"}
    /\ UNCHANGED << hvars, bot, token, created, ncalls, tool_call >>

\* the environment gets TELEGRAM_BOT_TOKEN
setenv ==
    /\ ~token
    /\ token' = TRUE
    /\ UNCHANGED << hvars, bot, created, ncalls, server, tool_call >>

\* A call_tool invocation from its start to its first await or its end.
ToolCall(q) ==
    /\ server # "down"
    /\ tool_call[q].pc \in {"idle", "done", "raised"}
    /\ ncalls < MaxCalls
    /\ \E name \in ToolNames : \E a \in ArgumentsOf(name) :
         LET c0 == [NoToolCall EXCEPT !.name = name, !.arguments = a]
             c1 == CASE name = "send_telegram_message" -> send_message(c0, bot, token, created)
                     [] name = "get_telegram_updates" ->
                            get_updates(c0, bot, token, created, server)
                     [] OTHER -> ToolRaise(c0, "ValueError")
             g  == get_bot(bot, token, created)
         IN  /\ tool_call' = [tool_call EXCEPT ![q] = call_tool(c1)]
             /\ bot' = IF c1.get_bot = "none" THEN bot ELSE g.bot
             /\ created' = IF c1.get_bot = "none" THEN created ELSE g.created
    /\ ncalls' = ncalls + 1
    /\ UNCHANGED << hvars, token, server >>

\* The awaited transport call of invocation q ends and the invocation runs
\* to its end.
ToolResume(q) ==
    /\ tool_call[q].pc = "await"
    /\ \E o \in FacadeOutcomes :
         LET c == tool_call[q]
         IN  IF c.name = "send_telegram_message"
             THEN tool_call' = [tool_call EXCEPT ![q] = call_tool(send_message_sent(c, o))]
             ELSE \E updates \in IF o = "ok" THEN UpdateLists ELSE {<< >>} :
                    tool_call' = [tool_call EXCEPT
                                     ![q] = call_tool(get_updates_received(c, o, updates))]
    /\ UNCHANGED << hvars, bot, token, created, ncalls, server >>

FacadeNext == main \/ setenv \/ (\E q \in Calls : ToolCall(q) \/ ToolResume(q))

SpecFacade == Init /\ [][FacadeNext]_vars

\* ------------------------------------------------------------- properties
\* the messages of invocation p delivered to the chat, in order
Delivered(p) == SelectSeq(chat, LAMBDA m : m.owner = p)
Texts(ms) == [j \in DOMAIN ms |-> ms[j].text]
OpsAt(p, sites) == SelectSeq(ops[p], LAMBDA op : op.site \in sites)
Ended(p) == pc[p] \in {"returned", "raised"}
Ceil(n, d) == IF n % d = 0 THEN n \div d ELSE n \div d + 1

\* C1: a command without arguments makes its handler issue exactly one
\* reply, the usage text, and end: no placeholder, no edit, no adapter call,
\* no status message; at most one message reaches the chat, and exactly the
\* usage text when the handler returns.
C1_NoArgsSingleUsage ==
    \A p \in Procs :
        (cmd[p] # "none" /\ ~args[p]) =>
            /\ Len(ops[p]) = 1
            /\ ops[p][1].site = "usage"
            /\ ops[p][1].fn \in {"reply_text", "safe_reply"}
            /\ ops[p][1].text = Msg("usage", cmd[p], 0, 0, NoStr)
            /\ pc[p] \in {"usage", "returned", "raised"}
            /\ status_msg[p] = << >>
            /\ events[p] = << >> /\ response[p] = NoText
            /\ Len(Delivered(p)) <= 1
            /\ pc[p] = "returned" => Texts(Delivered(p)) = << Msg("usage", cmd[p], 0, 0, NoStr) >>

C1_Witness ==
    \E p \in Procs : cmd[p] = "claude" /\ ~args[p] /\ pc[p] = "returned"

\* The handler of p returned after sending all its result replies: no
\* except clause and no failure branch was entered.
SuccessPath(p) ==
    /\ pc[p] = "returned" /\ args[p]
    /\ cmd[p] \in {"deepseek", "claude"}
    /\ OpsAt(p, {"edit_error", "reply_error", "edit_config", "reply_config",
                 "edit_failed", "reply_failed"}) = << >>

\* the string b contains all of out
Contains(b, out) ==
    StrLen(out) = 0 \/ (b.src = out.src /\ b.lo <= out.lo /\ out.hi <= b.hi)

\* one reply containing all of out when out is at most thr long; else the
\* bodies of the replies fs are the consecutive pieces of out, at most thr
\* characters each, ceil(len/thr) of them, labelled 1, 2, ... in order
ChunkedExactly(fs, out, thr) ==
    IF StrLen(out) <= thr
    THEN /\ Len(fs) = 1
         /\ Contains(fs[1].body, out)
    ELSE /\ Len(fs) = Ceil(StrLen(out), thr)
         /\ fs[1].body.lo = out.lo
         /\ fs[Len(fs)].body.hi = out.hi
         /\ \A j \in 1..Len(fs) :
              /\ fs[j].body.src = out.src /\ ~fs[j].body.mark
              /\ fs[j].i = j
              /\ StrLen(fs[j].body) <= thr
              /\ j < Len(fs) => fs[j + 1].body.lo = fs[j].body.hi

\* the result replies of p: as passed to safe_reply, and as delivered after
\* the status placeholder
ResultReplies(p) == Texts(OpsAt(p, {"final"}))
ResultDelivered(p) == Tail(Texts(Delivered(p)))

Tried(p, fns, os) == hist[p].fn \in fns /\ hist[p].tries = os

\* C3: a safe_reply or safe_edit whose transport call fails with a transient
\* error twice and then succeeds has made 3 transport calls and slept 1 and
\* then 2 time units, and returns the message of the third call: the new
\* message (safe_reply) or the edited status message (safe_edit), carrying
\* the text passed, as an immediate success would.
C3_RetryThenSuccess ==
    \A p \in Procs :
        (/\ hist[p].fn \in {"safe_reply", "safe_edit"}
         /\ Len(hist[p].tries) >= 3
         /\ hist[p].tries[1] \in Transient /\ hist[p].tries[2] \in Transient
         /\ hist[p].tries[3] = "ok") =>
            /\ Len(hist[p].tries) = 3
            /\ hist[p].waits = << 1, 2 >>
            /\ call[p].phase # "sleep"
            /\ hist[p].res = "return" /\ hist[p].exc = ""
            /\ hist[p].value \in DOMAIN chat
            /\ chat[hist[p].value] = [owner |-> p, text |-> hist[p].text]
            /\ hist[p].fn = "safe_edit" => status_msg[p] = << hist[p].value >>
            /\ hist[p].fn = "safe_reply" => hist[p].value = Len(chat)

C3_Witness ==
    \E p \in Procs :
        /\ Tried(p, {"safe_edit"}, << "NetworkError", "NetworkError", "ok" >>)
        /\ hist[p].res = "return"

\* where a handler is right after the status edit at site returned
AfterEdit(site) ==
    CASE site \in {"edit_processing", "edit_status", "edit_progress"} -> "invoke"
      [] site = "edit_done" -> "final"
      [] site = "edit_failed" -> "reply_failed"
      [] site = "edit_config" -> "reply_config"
      [] site = "edit_error" -> "reply_error"

\* C4: a safe_edit whose transport call fails with a transient error every
\* time makes 3 attempts, sleeps 1 and 2 between them, returns None without
\* raising, and its handler goes on with the step that follows the edit: the
\* adapter call or next event, the first result reply, or the reply of the
\* branch it is in.
C4_EditExhaustedContinues ==
    \A p \in Procs :
        (/\ hist[p].fn = "safe_edit"
         /\ \A j \in DOMAIN hist[p].tries : hist[p].tries[j] \in Transient) =>
            /\ Len(hist[p].tries) <= max_retries
            /\ Len(hist[p].tries) < max_retries => hist[p].res = "pending"
            /\ Len(hist[p].tries) = max_retries =>
                 /\ hist[p].res = "none" /\ hist[p].exc = "" /\ hist[p].value = 0
                 /\ hist[p].waits = << 1, 2 >>
                 /\ call[p] = NewCall \/ pc[p] = "invoke"
                 /\ pc[p] = AfterEdit(hist[p].site)
                 /\ hist[p].site \notin {"edit_config", "edit_error"} => err[p] = ""

C4_Witness ==
    \E p \in Procs :
        /\ Tried(p, {"safe_edit"}, << "NetworkError", "NetworkError", "NetworkError" >>)
        /\ hist[p].site = "edit_processing"
        /\ hist[p].res = "none"
        /\ pc[p] = "invoke"

\* C5 as stated: no call of safe_edit ends by raising to its caller.
C5_EditNeverRaises ==
    \A p \in Procs : hist[p].fn = "safe_edit" => hist[p].res # "raise"

\* C6: a safe_reply whose transport call fails with a transient error every
\* time makes 3 attempts and no more, sleeps 1 and 2 between them and not
\* after the last, and raises the error of the third attempt to its caller.
C6_ReplyExhaustedRaises ==
    \A p \in Procs :
        (/\ hist[p].fn = "safe_reply"
         /\ \A j \in DOMAIN hist[p].tries : hist[p].tries[j] \in Transient) =>
            /\ Len(hist[p].tries) <= max_retries
            /\ Len(hist[p].tries) < max_retries =>
                 /\ hist[p].res = "pending"
                 /\ hist[p].waits \in {SubSeq(<< 1, 2 >>, 1, Len(hist[p].tries) - 1),
                                       SubSeq(<< 1, 2 >>, 1, Len(hist[p].tries))}
            /\ Len(hist[p].tries) = max_retries =>
                 /\ hist[p].res = "raise" /\ hist[p].value = 0
                 /\ hist[p].exc = hist[p].tries[max_retries]
                 /\ hist[p].waits = << 1, 2 >>
                 /\ call[p].phase # "sleep"
                 /\ pc[p] \in {"raised", "edit_error"}
                 /\ hist[p].site # "placeholder" => err[p] = hist[p].exc

C6_Witness ==
    \E p \in Procs :
        /\ Tried(p, {"safe_reply"}, << "NetworkError", "NetworkError", "NetworkError" >>)
        /\ hist[p].res = "raise"
        /\ hist[p].site = "final"

\* C7 as stated: no invocation of a handler ends with an exception escaping.
C7_NoErrorEscapes ==
    \A p \in Procs : pc[p] # "raised"

\* C8 as stated: an invocation with arguments whose placeholder was
\* delivered, and none of whose reply_text calls failed, has delivered at
\* least one further reply when it ends, whatever the adapter and the status
\* edits did.
C8_ReplyFollowsPlaceholder ==
    \A p \in Procs :
        (/\ Ended(p) /\ args[p]
         /\ Len(Delivered(p)) >= 1
         /\ "reply_text" \notin failed[p]) =>
            Len(Delivered(p)) >= 2

\* the edit of the status message a status/progress event must lead to
EventEdit(ev) ==
    [fn |-> "safe_edit",
     site |-> IF ev.type = "status" THEN "edit_status" ELSE "edit_progress",
     text |-> Msg(IF ev.type = "status" THEN "edit_status" ELSE "edit_progress",
                  ev.message, 0, 0, NoStr)]

\* C9: in claude_command, when the stream was n status/progress events and
\* then a result event with success true, and no primitive raised, the
\* handler's calls are, in this order: the placeholder reply, one edit per
\* event in event order with that event's marker and payload, the edit to
\* the success marker, then result replies only; for the stream
\* [status "starting", progress "50%", result(success, short stdout)] that is
\* five calls, the last the one reply with all of stdout.  The replies reach
\* the chat in that order after the status message.
C9_StreamOrder ==
    \A p \in Procs :
        (/\ cmd[p] = "claude" /\ args[p] /\ pc[p] = "returned"
         /\ HasResult(events[p]) /\ result[p].success
         /\ OpsAt(p, {"edit_error", "reply_error"}) = << >>) =>
            LET n == Len(events[p]) - 1 IN
            /\ events[p][n + 1].type = "result"
            /\ Len(ops[p]) >= n + 3
            /\ ops[p][1] = [fn |-> "safe_reply", site |-> "placeholder",
                            text |-> Msg("placeholder", "claude", 0, 0, NoStr)]
            /\ \A j \in 1..n : ops[p][1 + j] = EventEdit(events[p][j])
            /\ ops[p][n + 2] = [fn |-> "safe_edit", site |-> "edit_done",
                                text |-> Msg("edit_done", "claude", 0, 0, NoStr)]
            /\ \A j \in (n + 3)..Len(ops[p]) :
                  ops[p][j].site = "final" /\ ops[p][j].fn = "safe_reply"
            /\ Tail(Texts(Delivered(p))) =
                  [j \in 1..(Len(ops[p]) - n - 2) |-> ops[p][n + 2 + j].text]
            /\ "edit_text" \notin failed[p] =>
                  Delivered(p)[1].text = Msg("edit_done", "claude", 0, 0, NoStr)
            /\ (/\ events[p] = << Event("status", "starting"), Event("progress", "50%"),
                                  Event("result", "") >>
                /\ result[p].stdout = Text(0, 1, 0)) =>
                  /\ Len(ops[p]) = 5
                  /\ ops[p][5].text = Msg("output", "", 0, 0, Str("stdout", 0, 1))

C9_Witness ==
    \E p \in Procs :
        /\ cmd[p] = "claude" /\ pc[p] = "returned"
        /\ events[p] = << Event("status", "starting"), Event("progress", "50%"),
                          Event("result", "") >>
        /\ result[p] = Result(TRUE, 0, Text(0, 1, 0), NoText)
        /\ Len(ops[p]) = 5 /\ Len(Delivered(p)) = 2

\* C10: fetch_command with an argument, when the backend returned a text and
\* no reply failed, made exactly two replies: the placeholder, then one
\* content reply holding the first 4000 characters and the truncation marker
\* when the text is longer than 4000, and the whole text without marker
\* otherwise; both reached the chat in that order.
C10_FetchTruncates ==
    \A p \in Procs :
        (/\ cmd[p] = "fetch" /\ args[p] /\ pc[p] = "returned"
         /\ OpsAt(p, {"reply_error"}) = << >>) =>
            LET n == TextLen(response[p])
                body == IF n > 4000
                        THEN [src |-> "content", lo |-> 0, hi |-> 4000, mark |-> TRUE]
                        ELSE [src |-> "content", lo |-> 0, hi |-> n, mark |-> FALSE]
            IN
            /\ ops[p] = << [fn |-> "reply_text", site |-> "placeholder",
                            text |-> Msg("placeholder", "fetch", 0, 0, NoStr)],
                           [fn |-> "reply_text", site |-> "final",
                            text |-> Msg("content", "", 0, 0, body)] >>
            /\ Texts(Delivered(p)) = Texts(ops[p])

C10_Witness ==
    \E p \in Procs :
        /\ cmd[p] = "fetch" /\ pc[p] = "returned"
        /\ response[p] = Text(0, 5000, 0)
        /\ Len(Delivered(p)) = 2
        /\ Delivered(p)[2].text.body = [src |-> "content", lo |-> 0, hi |-> 4000, mark |-> TRUE]

\* the placeholder send of invocation p has failed: the handler is past
\* it and nothing of p has reached the chat
PlaceholderFailed(p) ==
    /\ args[p]
    /\ pc[p] \notin {"idle", "placeholder"}
    /\ Delivered(p) = << >>

\* C15: when the send of the status placeholder fails the handler aborts
\* with no further action: the adapter is not called, nothing is edited
\* and no other reply is sent.
C15_PlaceholderFailureAborts ==
    \A p \in Procs :
        PlaceholderFailed(p) =>
            /\ pc[p] = "raised"
            /\ Len(ops[p]) = 1
            /\ ops[p][1].site = "placeholder"
            /\ adapter[p] = "none"
            /\ events[p] = << >>
            /\ "edit_text" \notin failed[p]

\* the placeholder of /claude was given up after its retries
C15_Witness ==
    /\ PlaceholderFailed(1)
    /\ cmd[1] = "claude"
    /\ hist[1].site = "placeholder"
    /\ Len(hist[1].tries) = max_retries

\* the call sites of the primitive calls invocation p has made, in order
SitesOf(p) == [j \in DOMAIN ops[p] |-> ops[p][j].site]

\* C16 as stated: in deepseek_command, after the placeholder was sent, a
\* configuration error (ValueError) of the adapter is followed by the edit
\* to the config-error marker and the config-error reply; any other error
\* by the edit to the generic-error marker and an error reply carrying the
\* error's message; the config branch is taken for the configuration error
\* only, and no result reply is made in either case.
C16_AdapterErrorBranches ==
    \A p \in Procs :
        (cmd[p] = "deepseek" /\ Ended(p)) =>
            /\ adapter[p] = "ValueError" =>
                 SitesOf(p) = << "placeholder", "edit_processing", "edit_config",
                                 "reply_config" >>
            /\ adapter[p] = "Exception" =>
                 /\ SitesOf(p) = << "placeholder", "edit_processing", "edit_error",
                                    "reply_error" >>
                 /\ ops[p][4].text = Msg("reply_error", "Exception", 0, 0, NoStr)
            /\ OpsAt(p, {"edit_config", "reply_config"}) # << >> => adapter[p] = "ValueError"

\* the primitive calls invocation p has made since its result event
SinceResult(p) == SubSeq(ops[p], Len(events[p]) + 1, Len(ops[p]))

\* the text the failure reply must carry for result res: the return code
\* and stderr, or stdout when stderr is empty, cut to 3800 characters and
\* marked when longer
FailureText(res) ==
    LET stderr == strip("stderr", res.stderr)
        error_msg == IF StrLen(stderr) > 0 THEN stderr ELSE strip("stdout", res.stdout)
    IN  Msg("failed_reply", ToString(res.return_code), 0, 0,
            truncate(error_msg, CLAUDE_LIMIT))

\* C17 as stated: claude_command branches the result event on its success
\* field alone, whatever return_code is: when success is false the status
\* is edited to the failure marker and exactly one reply is made, with the
\* return code and stderr (stdout when stderr is empty), cut to 3800
\* characters plus the truncation marker when longer, and never in chunks.
C17_FailureBranch ==
    \A p \in Procs :
        (cmd[p] = "claude" /\ HasResult(events[p]) /\ Ended(p)) =>
            IF result[p].success
            THEN OpsAt(p, {"edit_failed", "reply_failed"}) = << >>
            ELSE /\ Len(SinceResult(p)) >= 2
                 /\ SinceResult(p)[1].site = "edit_failed"
                 /\ SinceResult(p)[2].site = "reply_failed"
                 /\ SinceResult(p)[2].text = FailureText(result[p])
                 /\ Len(OpsAt(p, {"reply_failed"})) = 1
                 /\ OpsAt(p, {"edit_done", "final"}) = << >>

\* invocation p makes a transport call for a status edit in this step
Edits(p) == pc[p] \in EditSites /\ call[p].phase = "try" /\ hist'[p] # hist[p]

\* C18: with two invocations interleaved at their awaits (sends, edits,
\* adapter calls, backoff waits), every status edit of an invocation goes
\* to the status message this invocation created: the handle an invocation
\* holds is a message of its own, no two invocations hold the same
\* handle, and a message of the chat changes only by an edit of the
\* invocation that created it, to the text that invocation passed.
C18_OwnStatusMessage ==
    [][ /\ \A p \in Procs :
             status_msg'[p] # << >> =>
                 /\ status_msg'[p][1] \in DOMAIN chat'
                 /\ chat'[status_msg'[p][1]].owner = p
                 /\ chat'[status_msg'[p][1]] = Delivered(p)'[1]
                 /\ \A q \in Procs \ {p} : status_msg'[q] # status_msg'[p]
        /\ \A j \in DOMAIN chat :
             /\ chat'[j].owner = chat[j].owner
             /\ chat'[j] # chat[j] =>
                  LET p == chat[j].owner
                  IN  /\ Edits(p)
                      /\ status_msg[p] = << j >>
                      /\ chat'[j].text = ops[p][Len(ops[p])].text
                      /\ \A q \in Procs \ {p} : pc'[q] = pc[q] /\ hist'[q] = hist[q]
        /\ \A p \in Procs :
             (Edits(p) /\ hist'[p].res = "return") =>
                 /\ hist'[p].value = status_msg[p][1]
                 /\ chat'[status_msg[p][1]].text = hist'[p].text
      ]_vars

\* invocation 1 has edited its status message after invocation 2 has put
\* its own placeholder behind it, and invocation 2 has edited that one
C18_Witness ==
    /\ status_msg[1] = << 1 >>
    /\ status_msg[2] = << 2 >>
    /\ chat[1].text.tag \in EditSites
    /\ chat[2].text.tag \in EditSites
    /\ Len(chat) >= 3

\* the status message of invocation p shows the success marker
MarkedDone(p) ==
    /\ status_msg[p] # << >>
    /\ chat[status_msg[p][1]].text.tag = "edit_done"

\* the call sites of the failure and error paths
ErrorSites == {"edit_failed", "reply_failed", "edit_config", "reply_config",
               "edit_error", "reply_error"}

\* the primitive call of p in progress ends in this step with verdict r
Ends(p, r) == hist'[p] # hist[p] /\ hist'[p].res = r

Answered(q) == tool_call[q].pc \in {"done", "raised"}

\* C11: call_tool never raises: every invocation that has ended has
\* returned a list of exactly one text item, whatever the tool name, the
\* arguments and the failure; after a TelegramError the item is the
\* Telegram error text, after any other error it is the error's text
\* prefixed "Error: ".
C11_CallToolNeverRaises ==
    \A q \in Calls :
        /\ tool_call[q].pc # "raised"
        /\ tool_call[q].pc = "done" =>
              LET c == tool_call[q]
              IN  /\ Len(c.out) = 1
                  /\ c.out[1].type = "text"
                  /\ c.cause = "TelegramError" =>
                        c.out[1].prefix = "Telegram error: " /\ c.out[1].body = c.cause
                  /\ c.cause \notin {"", "TelegramError"} =>
                        c.out[1].prefix = "Error: " /\ c.out[1].body = c.cause
                  /\ c.out[1].prefix = "Telegram error: " => c.cause = "TelegramError"

\* each kind of failure has been answered: an unknown tool, arguments that
\* are no dict, a TelegramError and another error of the transport
C11_Witness ==
    /\ tool_call[1].pc = "done" /\ tool_call[1].cause = "RuntimeError"
    /\ tool_call[1].sent = 1
    /\ tool_call[2].pc = "done" /\ tool_call[2].cause = "ValueError"
    /\ tool_call[2].name = "other_tool"

\* the send-message call in slot q lacks a required argument
Incomplete(q) ==
    /\ tool_call[q].name = "send_telegram_message"
    /\ tool_call[q].arguments.dict
    /\ ~Truthy(tool_call[q].arguments.chat_id) \/ ~Truthy(tool_call[q].arguments.text)

\* C12: send_telegram_message checks its required arguments before it
\* touches the transport: with chat_id or text missing or empty the call
\* is answered at once with the textual error, without a transport call
\* and without get_bot, so without creating the client.
C12_ValidatesBeforeTransport ==
    \A q \in Calls :
        Incomplete(q) =>
            /\ tool_call[q].pc = "done"
            /\ tool_call[q].out
                 = << TextContent("Error: ", "chat_id and text are required", << >>) >>
            /\ tool_call[q].sent = 0
            /\ tool_call[q].get_bot = "none"
            /\ tool_call[q].used = 0

\* an incomplete call answered while the token is set and no client exists
C12_Witness ==
    /\ Incomplete(1)
    /\ tool_call[1].arguments.chat_id = "42"
    /\ tool_call[1].arguments.text = ""
    /\ token
    /\ bot = 0

\* the call in slot q has returned the header of get_updates
Listed(q) ==
    /\ tool_call[q].pc = "done"
    /\ tool_call[q].name = "get_telegram_updates"
    /\ tool_call[q].out[1].body = "Recent messages:"

\* the positions of the n most recent of len updates, in order
MostRecent(len, n) == [j \in 1 .. Min(n, len) |-> len - Min(n, len) + j]

\* C13: get_telegram_updates returns at most limit items, the most recent
\* ones, for every limit (the default 10, the boundary 0) and every list
\* the transport returns: the blocks are those of the last limit updates,
\* in order, and there are at most limit of them.
C13_AtMostLimit ==
    \A q \in Calls :
        Listed(q) =>
            LET c == tool_call[q]
                limit == limit_of(c.arguments)
            IN  /\ Len(c.out[1].blocks) <= limit
                /\ c.out[1].blocks
                     = SelectSeq(MostRecent(Len(c.updates), limit),
                                 LAMBDA j : c.updates[j] = "message")

\* C14: when no messages are available get_telegram_updates returns
\* exactly one text item, the "No recent messages" marker, and never the
\* header with no blocks under it.
C14_NoMessagesMarker ==
    \A q \in Calls :
        LET c == tool_call[q]
        IN  /\ Listed(q) => c.out[1].blocks # << >>
            /\ ( /\ c.name = "get_telegram_updates"
                 /\ c.pc = "done"
                 /\ c.sent = 1
                 /\ c.cause = ""
                 /\ \A j \in DOMAIN c.updates : c.updates[j] # "message" )
               => c.out = << TextContent("", "No recent messages", << >>) >>

\* slot q starts a call in this step and the call reaches get_bot
AsksForBot(q) ==
    /\ tool_call'[q] # tool_call[q]
    /\ tool_call[q].pc # "await"
    /\ tool_call'[q].get_bot # "none"

\* C19: the transport client is created at most once and then reused by
\* every call; a creation that fails because the token is unset leaves the
\* handle unset, so that a later call tries to create it again.
C19_ClientCreatedOnce ==
    [][ /\ created' <= 1
        /\ bot' = created'
        /\ bot # 0 => bot' = bot
        /\ \A q \in Calls :
             /\ tool_call'[q].used # 0 => tool_call'[q].used = bot'
             /\ tool_call'[q].sent > 0 => tool_call'[q].used # 0
             /\ AsksForBot(q) =>
                  tool_call'[q].get_bot
                    = IF bot # 0 THEN "reused" ELSE IF token THEN "created" ELSE "failed"
             /\ (AsksForBot(q) /\ tool_call'[q].get_bot = "failed") =>
                  /\ bot' = 0
                  /\ tool_call'[q].pc = "done"
                  /\ tool_call'[q].out = << TextContent("Error: ", "ValueError", << >>) >>
      ]_vars

\* the creation failed for the call in slot 1 while the token was unset,
\* and the later call in slot 2 has created the client and works with it
C19_Witness ==
    /\ tool_call[1].get_bot = "failed"
    /\ tool_call[2].get_bot = "created"
    /\ tool_call[2].used = bot
    /\ created = 1
====
